---- MODULE Spec2Model ----
(***************************************************************************)
(* Model of the Supernan AI dubbing pipeline (Kannada -> Hindi):           *)
(*   dub_video.run_pipeline, pipeline.extract, pipeline.transcribe,        *)
(*   pipeline.normalize and pipeline.translate.                            *)
(*                                                                         *)
(* Text is a sequence of Unicode code points (Python str).                 *)
(* Time is an integer number of 1/16000 s: 16 units are one millisecond    *)
(* and 1000 units are 1/16 s, a value a binary float holds exactly, so     *)
(* that float subtraction and round(x, 3) are exact on the modelled        *)
(* inputs.                                                                 *)
(***************************************************************************)
EXTENDS Integers, Sequences, FiniteSets, TLC

VARIABLES
    \* --- run_pipeline ---------------------------------------------------
    r_pc,          \* "idle" | "step1".."step4", the call about to be made | "done" | "failed"
    r_run,         \* number of calls of run_pipeline so far
    r_args,        \* start_time and end_time of the current run
    r_prev,        \* the run before: its arguments and whether it succeeded
    r_fs,          \* the files on disk: path -> content, or NoFile
    r_dir,         \* whether outdir exists
    r_fs0,         \* the files on disk when the current run started
    r_log,         \* the stage calls of the current run, in order
    r_tool,        \* the ffmpeg commands executed in the current run
    \* --- _is_valid_segment called on its own --------------------------
    g_pc,          \* "input" | "done"
    g_text,        \* argument text
    g_duration,    \* argument duration
    g_result,      \* what the call returned and which rules it evaluated
    \* --- transcribe_audio ---------------------------------------------
    t_pc,          \* "load" | "engine" | "loop" | "write" | "done" | "failed"
    t_raw,         \* result["segments"] of the recognition engine
    t_idx,         \* number of raw segments the loop has consumed
    t_segments,    \* local list `segments`
    t_rejected,    \* local counter `rejected`
    t_log,         \* the (kept, rejected) pair logged, or <<>>
    t_file,        \* content of output_json on disk, or NoFile
    t_returned,    \* the returned transcript_data, or NoFile
    t_file0,       \* content of output_json when transcribe_audio was entered
    t_error,       \* the call that raised: "" | "load" | "engine" | "write"
    \* --- normalize_kannada called on its own ---------------------------
    n_pc,          \* "input" | "once" | "twice"
    n_text,        \* argument text
    n_once,        \* normalize_kannada(text)
    n_fired,       \* the rules that replaced something in that call
    n_twice,       \* normalize_kannada(normalize_kannada(text))
    \* --- translate_transcript -------------------------------------------
    x_pc,          \* "read" | "init" | "loop" | "done" | "failed"
    x_in,          \* content of input_json on disk, or NoFile
    x_data,        \* local `data`
    x_loads,       \* number of times tokenizer and weights were loaded
    x_idx,         \* number of segments the loop has consumed
    x_translated,  \* local list `translated_segments`
    x_calls,       \* the engine calls issued, in order
    x_file,        \* content of output_json on disk, or NoFile
    x_returned,    \* the returned final_output, or NoFile
    \* --- NLLBTranslator.translate called on its own ----------------------
    p_pc,          \* "input" | "done" (translate returned or raised) | "hop" (_translate did)
    p_text,        \* argument text
    p_out,         \* the engine calls issued, whether it returned, and the result
    \* --- HindiRefiner (refine.py) ----------------------------------------
    f_pc,          \* "new" | "ready" | "done" | "failed" (the constructor raised)
    f_text,        \* the Hindi text handed to refine
    f_out          \* what the chat completion did and what refine did

gateVars == <<g_pc, g_text, g_duration, g_result>>
transcribeVars ==
    <<t_pc, t_raw, t_idx, t_segments, t_rejected, t_log, t_file, t_returned, t_file0, t_error>>
normalizeVars == <<n_pc, n_text, n_once, n_fired, n_twice>>
translateVars ==
    <<x_pc, x_in, x_data, x_loads, x_idx, x_translated, x_calls, x_file, x_returned>>
pivotVars == <<p_pc, p_text, p_out>>
refineVars == <<f_pc, f_text, f_out>>
pipelineVars == <<r_pc, r_run, r_args, r_prev, r_fs, r_dir, r_fs0, r_log, r_tool>>
vars == <<pipelineVars, gateVars, transcribeVars, normalizeVars, translateVars, pivotVars, refineVars>>

\* What an operation of one component leaves alone: the other components.
outsidePipeline == <<gateVars, transcribeVars, normalizeVars, translateVars, pivotVars, refineVars>>
outsideGate == <<pipelineVars, transcribeVars, normalizeVars, translateVars, pivotVars, refineVars>>
outsideTranscribe == <<pipelineVars, gateVars, normalizeVars, translateVars, pivotVars, refineVars>>
outsideNormalize == <<pipelineVars, gateVars, transcribeVars, translateVars, pivotVars, refineVars>>
outsideTranslate == <<pipelineVars, gateVars, transcribeVars, normalizeVars, pivotVars, refineVars>>
outsidePivot == <<pipelineVars, gateVars, transcribeVars, normalizeVars, translateVars, refineVars>>
outsideRefine == <<pipelineVars, gateVars, transcribeVars, normalizeVars, translateVars, pivotVars>>

NoFile == [absent |-> TRUE]

(***************************************************************************)
(* Sequence helpers                                                        *)
(***************************************************************************)
Range(s) == {s[i] : i \in 1..Len(s)}

SeqsUpTo(S, n) == UNION {[1..k -> S] : k \in 0..n}

(***************************************************************************)
(* Python str.strip() and str.lower()                                      *)
(***************************************************************************)
\* The code points str.isspace() accepts.
Whitespace ==
    {9, 10, 11, 12, 13, 28, 29, 30, 31, 32, 133, 160, 5760, 8232, 8233, 8239, 8287, 12288}
        \cup (8192..8202)

RECURSIVE LStrip(_)
LStrip(s) ==
    IF s # <<>> /\ Head(s) \in Whitespace THEN LStrip(Tail(s)) ELSE s

RECURSIVE RStrip(_)
RStrip(s) ==
    IF s # <<>> /\ s[Len(s)] \in Whitespace THEN RStrip(SubSeq(s, 1, Len(s) - 1)) ELSE s

Strip(s) == RStrip(LStrip(s))

\* str.lower() on the modelled alphabet: ASCII letters fold, Kannada and
\* punctuation have no case.
LowerChar(c) == IF c \in 65..90 THEN c + 32 ELSE c

Lower(s) == [i \in 1..Len(s) |-> LowerChar(s[i])]

(***************************************************************************)
(* pipeline/transcribe.py: the quality gate                                *)
(***************************************************************************)
_KNOWN_HALLUCINATIONS ==
    { <<46, 46, 46>>,
      <<3239, 3240, 3277, 3247, 3253, 3262, 3238>>,
      <<3239, 3240, 3277, 3247, 3253, 3262, 3238, 3223, 3251, 3265>>,
      <<3256, 3202, 3223, 3264, 3236>>,
      <<91, 109, 117, 115, 105, 99, 93>>,
      <<91, 115, 105, 108, 101, 110, 99, 101, 93>>,
      <<91, 97, 112, 112, 108, 97, 117, 115, 101, 93>> }

\* 0.5 s
MIN_DURATION == 8000
MIN_LENGTH == 3
MIN_UNIQUENESS == 5

\* The gate with the length rule ahead of the duration rule.
_is_valid_segment_length_first(text, duration) ==
    LET stripped == Strip(text) IN
    IF Len(stripped) < MIN_LENGTH
    THEN [valid |-> FALSE, evaluated |-> <<"length">>]
    ELSE IF duration < MIN_DURATION
    THEN [valid |-> FALSE, evaluated |-> <<"length", "duration">>]
    ELSE IF Cardinality(Range(stripped)) < MIN_UNIQUENESS
    THEN [valid |-> FALSE, evaluated |-> <<"length", "duration", "uniqueness">>]
    ELSE IF Lower(stripped) \in {Lower(h) : h \in _KNOWN_HALLUCINATIONS}
    THEN [valid |-> FALSE,
          evaluated |-> <<"length", "duration", "uniqueness", "hallucination">>]
    ELSE [valid |-> TRUE,
          evaluated |-> <<"length", "duration", "uniqueness", "hallucination">>]

\* The gate matching hallucinations without lower().
_is_valid_segment_case_sensitive(text, duration) ==
    LET stripped == Strip(text) IN
    IF duration < MIN_DURATION
    THEN [valid |-> FALSE, evaluated |-> <<"duration">>]
    ELSE IF Len(stripped) < MIN_LENGTH
    THEN [valid |-> FALSE, evaluated |-> <<"duration", "length">>]
    ELSE IF Cardinality(Range(stripped)) < MIN_UNIQUENESS
    THEN [valid |-> FALSE, evaluated |-> <<"duration", "length", "uniqueness">>]
    ELSE IF stripped \in _KNOWN_HALLUCINATIONS
    THEN [valid |-> FALSE,
          evaluated |-> <<"duration", "length", "uniqueness", "hallucination">>]
    ELSE [valid |-> TRUE,
          evaluated |-> <<"duration", "length", "uniqueness", "hallucination">>]

\* The verdict and the rules whose condition was evaluated, in order.
_is_valid_segment(text, duration) ==
    LET stripped == Strip(text) IN
    IF duration < MIN_DURATION
    THEN [valid |-> FALSE, evaluated |-> <<"duration">>]
    ELSE IF Len(stripped) < MIN_LENGTH
    THEN [valid |-> FALSE, evaluated |-> <<"duration", "length">>]
    ELSE IF Cardinality(Range(stripped)) < MIN_UNIQUENESS
    THEN [valid |-> FALSE, evaluated |-> <<"duration", "length", "uniqueness">>]
    ELSE IF Lower(stripped) \in {Lower(h) : h \in _KNOWN_HALLUCINATIONS}
    THEN [valid |-> FALSE,
          evaluated |-> <<"duration", "length", "uniqueness", "hallucination">>]
    ELSE [valid |-> TRUE,
          evaluated |-> <<"duration", "length", "uniqueness", "hallucination">>]

(***************************************************************************)
(* Inputs of the gate when it is called on its own                         *)
(***************************************************************************)
MaxPad == 1
MaxCoreLen == 3
DurSpread == 2

PadChars == {32, 10}
SmallAlpha == {97, 46, 32}

\* "ಸೊಲ್ಪ ನೋಡ್ತಾ ಇರಿ", the docstring example of normalize_kannada
DocExample ==
    <<3256, 3274, 3250, 3277, 3242, 32, 3240, 3275, 3233, 3277, 3236, 3262, 32,
      3207, 3248, 3263>>

\* "[MUSIC]", "[Music]", "[music]!", "x[music]", "ಸಂಗೀತ abc", "abcde", "hello",
\* "aaaaaa", "ab.de"
GateSamples ==
    { <<91, 77, 85, 83, 73, 67, 93>>,
      <<91, 77, 117, 115, 105, 99, 93>>,
      <<91, 109, 117, 115, 105, 99, 93, 33>>,
      <<120, 91, 109, 117, 115, 105, 99, 93>>,
      <<3256, 3202, 3223, 3264, 3236, 32, 97, 98, 99>>,
      <<97, 98, 99, 100, 101>>,
      <<104, 101, 108, 108, 111>>,
      <<97, 97, 97, 97, 97, 97>>,
      <<97, 98, 46, 100, 101>>,
      DocExample }

GateCores == _KNOWN_HALLUCINATIONS \cup GateSamples \cup SeqsUpTo(SmallAlpha, MaxCoreLen)

GateTexts ==
    {l \o c \o r : l \in SeqsUpTo(PadChars, MaxPad),
                   c \in GateCores,
                   r \in SeqsUpTo(PadChars, MaxPad)}

GateDurations == {0} \cup {MIN_DURATION + 1000 * d : d \in (0 - DurSpread)..DurSpread}

GateIdle ==
    /\ g_pc = "idle"
    /\ g_text = <<>>
    /\ g_duration = 0
    /\ g_result = [valid |-> FALSE, evaluated |-> <<>>]

GateInit ==
    /\ g_pc = "input"
    /\ g_text \in GateTexts
    /\ g_duration \in GateDurations
    /\ g_result = [valid |-> FALSE, evaluated |-> <<>>]

\* One call _is_valid_segment(text, duration).
GateCall ==
    /\ g_pc = "input"
    /\ g_result' = _is_valid_segment(g_text, g_duration)
    /\ g_pc' = "done"
    /\ UNCHANGED <<g_text, g_duration>>
    /\ UNCHANGED outsideGate

GateNext == GateCall

(***************************************************************************)
(* pipeline/transcribe.py: transcribe_audio                                *)
(***************************************************************************)
\* round(x, 3): to the nearest millisecond, a tie to the even millisecond.
Round3(u) ==
    LET q == u \div 16
        r == u % 16
    IN  16 * (IF r < 8 THEN q
              ELSE IF r > 8 THEN q + 1
              ELSE IF q % 2 = 0 THEN q ELSE q + 1)

MaxSegs == 2
MaxStartTick == 2

EngineStarts == {1000 * k : k \in 0..MaxStartTick}
EngineDurations == {MIN_DURATION + 1000 * d : d \in (0 - 1)..1}

\* " abcde ", "[Music]", the docstring example
EngineTexts ==
    { <<32, 97, 98, 99, 100, 101, 32>>,
      <<91, 77, 117, 115, 105, 99, 93>>,
      DocExample }

RawSegments ==
    {[start |-> s, end |-> s + d, text |-> t] :
        s \in EngineStarts, d \in EngineDurations, t \in EngineTexts}

EngineOutputs == SeqsUpTo(RawSegments, MaxSegs)

\* A transcript an earlier invocation left at output_json.
OldTranscript == [language |-> "kn", segments |-> <<>>, old |-> TRUE]
PartialFile == [partial |-> TRUE]

TranscribeIdle ==
    /\ t_pc = "idle"
    /\ t_raw = <<>>
    /\ t_idx = 0
    /\ t_segments = <<>>
    /\ t_rejected = 0
    /\ t_log = <<>>
    /\ t_file = NoFile
    /\ t_returned = NoFile
    /\ t_file0 = NoFile
    /\ t_error = ""

TranscribeInit ==
    /\ t_pc = "load"
    /\ t_raw = <<>>
    /\ t_idx = 0
    /\ t_segments = <<>>
    /\ t_rejected = 0
    /\ t_log = <<>>
    /\ t_file \in {NoFile, OldTranscript}
    /\ t_returned = NoFile
    /\ t_file0 = t_file
    /\ t_error = ""

\* whisper.load_model("large", device=device); it may raise.
T_LoadModel ==
    /\ t_pc = "load"
    /\ \/ /\ t_pc' = "failed"
          /\ t_error' = "load"
       \/ /\ t_pc' = "engine"
          /\ UNCHANGED t_error
    /\ UNCHANGED <<t_raw, t_idx, t_segments, t_rejected, t_log, t_file, t_returned, t_file0>>
    /\ UNCHANGED outsideTranscribe

\* A model.transcribe whose failure leaves an empty transcript at output_json.
T_Transcribe_writes_empty ==
    /\ t_pc = "engine"
    /\ \/ /\ t_pc' = "failed"
          /\ t_error' = "engine"
          /\ t_file' = [language |-> "kn", segments |-> <<>>]
          /\ UNCHANGED t_raw
       \/ /\ t_raw' \in EngineOutputs
          /\ t_pc' = "loop"
          /\ UNCHANGED <<t_error, t_file>>
    /\ UNCHANGED <<t_idx, t_segments, t_rejected, t_log, t_returned, t_file0>>
    /\ UNCHANGED outsideTranscribe

\* model.transcribe(audio_path, language="kn", ...); it may raise.
T_Transcribe ==
    /\ t_pc = "engine"
    /\ \/ /\ t_pc' = "failed"
          /\ t_error' = "engine"
          /\ UNCHANGED t_raw
       \/ /\ t_raw' \in EngineOutputs
          /\ t_pc' = "loop"
          /\ UNCHANGED t_error
    /\ UNCHANGED <<t_idx, t_segments, t_rejected, t_log, t_file, t_returned, t_file0>>
    /\ UNCHANGED outsideTranscribe

\* The loop putting a kept segment at the front of `segments`.
T_LoopStep_prepend ==
    /\ t_pc = "loop"
    /\ t_idx < Len(t_raw)
    /\ LET seg == t_raw[t_idx + 1]
           text == Strip(seg.text)
           duration == seg.end - seg.start
       IN  IF ~ _is_valid_segment(text, duration).valid
           THEN /\ t_rejected' = t_rejected + 1
                /\ UNCHANGED t_segments
           ELSE /\ t_segments' = <<[start |-> Round3(seg.start),
                                   end |-> Round3(seg.end),
                                   text |-> text]>> \o t_segments
                /\ UNCHANGED t_rejected
    /\ t_idx' = t_idx + 1
    /\ UNCHANGED <<t_pc, t_raw, t_log, t_file, t_returned, t_file0, t_error>>
    /\ UNCHANGED outsideTranscribe

\* One iteration of `for seg in result["segments"]`.
T_LoopStep ==
    /\ t_pc = "loop"
    /\ t_idx < Len(t_raw)
    /\ LET seg == t_raw[t_idx + 1]
           text == Strip(seg.text)
           duration == seg.end - seg.start
       IN  IF ~ _is_valid_segment(text, duration).valid
           THEN /\ t_rejected' = t_rejected + 1
                /\ UNCHANGED t_segments
           ELSE /\ t_segments' = Append(t_segments,
                                        [start |-> Round3(seg.start),
                                         end |-> Round3(seg.end),
                                         text |-> text])
                /\ UNCHANGED t_rejected
    /\ t_idx' = t_idx + 1
    /\ UNCHANGED <<t_pc, t_raw, t_log, t_file, t_returned, t_file0, t_error>>
    /\ UNCHANGED outsideTranscribe

\* The loop is exhausted: the kept and rejected counts are logged.
T_LogCounts ==
    /\ t_pc = "loop"
    /\ t_idx = Len(t_raw)
    /\ t_log' = <<Len(t_segments), t_rejected>>
    /\ t_pc' = "write"
    /\ UNCHANGED <<t_raw, t_idx, t_segments, t_rejected, t_file, t_returned, t_file0, t_error>>
    /\ UNCHANGED outsideTranscribe

\* mkdir, open(output, "w"), json.dump, return transcript_data.  mkdir or
\* open may raise with the file untouched; open truncates, so a failing dump
\* leaves a partial file.
T_Write ==
    /\ t_pc = "write"
    /\ LET transcript_data == [language |-> "kn", segments |-> t_segments] IN
       \/ /\ t_file' = transcript_data
          /\ t_returned' = transcript_data
          /\ t_pc' = "done"
          /\ UNCHANGED t_error
       \/ /\ t_file' \in {t_file, PartialFile}
          /\ UNCHANGED t_returned
          /\ t_pc' = "failed"
          /\ t_error' = "write"
    /\ UNCHANGED <<t_raw, t_idx, t_segments, t_rejected, t_log, t_file0>>
    /\ UNCHANGED outsideTranscribe

TranscribeNext == T_LoadModel \/ T_Transcribe \/ T_LoopStep \/ T_LogCounts \/ T_Write

(***************************************************************************)
(* pipeline/normalize.py                                                   *)
(***************************************************************************)
\* (colloquial_form, standard_form), in table order.
_REPLACEMENTS ==
    <<
      <<<<3246, 3274, 3202, 3226, 3263, 3240, 3270>>,
        <<3246, 3274, 3238, 3250, 3265>>>>,
      <<<<3236, 3265, 3246, 3277, 3244>>,
        <<3236, 3265, 3202, 3244>>>>,
      <<<<3256, 3274, 3250, 3277, 3242>>,
        <<3256, 3277, 3253, 3250, 3277, 3242>>>>,
      <<<<3247, 3266, 3256, 3277>>,
        <<3244, 3251, 3256, 3263>>>>,
      <<<<3207, 3256, 3277, 3231, 3277>>,
        <<3207, 3255, 3277, 3231>>>>,
      <<<<3240, 3263, 3253, 3265>>,
        <<3240, 3264, 3253, 3265>>>>,
      <<<<3257, 3271, 3202, 3223, 3270>>,
        <<3257, 3271, 3223, 3270>>>>,
      <<<<3214, 3202, 3236>>,
        <<3215, 3240, 3265>>>>,
      <<<<3205, 3238, 3277, 3221, 3270>>,
        <<3205, 3238, 3221, 3277, 3221, 3270>>>>,
      <<<<3207, 3238, 3277, 3221, 3270>>,
        <<3207, 3238, 3221, 3277, 3221, 3270>>>>,
      <<<<3221, 3274, 3233, 3277, 3248, 3263>>,
        <<3221, 3274, 3233, 3263>>>>,
      <<<<3246, 3262, 3233, 3277, 3221, 3275>>,
        <<3246, 3262, 3233, 3263, 3221, 3274>>>>,
      <<<<3257, 3275, 3223, 3277, 3244, 3271, 3221, 3265>>,
        <<3257, 3275, 3223, 3244, 3271, 3221, 3265>>>>,
      <<<<3244, 3248, 3277, 3236, 3262>>,
        <<3244, 3248, 3265, 3236, 3277, 3236, 3262>>>>,
      <<<<3246, 3262, 3233, 3277, 3236, 3264, 3240, 3263>>,
        <<3246, 3262, 3233, 3265, 3236, 3277, 3236, 3271, 3240, 3270>>>>,
      <<<<3207, 3231, 3277, 3221, 3274>>,
        <<3207, 3231, 3277, 3231, 3265, 3221, 3274>>>>,
      <<<<3223, 3274, 3236, 3277, 3236, 3263, 3250, 3277, 3250>>,
        <<3223, 3274, 3236, 3277, 3236, 3263, 3250, 3277, 3250>>>>,
      <<<<3240, 3246, 3277, 3246>>,
        <<3240, 3246, 3277, 3246>>>>,
      <<<<3206, 3247, 3277, 3236, 3265>>,
        <<3206, 3247, 3263, 3236, 3265>>>>,
      <<<<3246, 3262, 3233, 3277, 3244, 3271, 3233>>,
        <<3246, 3262, 3233, 3244, 3271, 3233>>>>,
      <<<<3240, 3275, 3233, 3277, 3236, 3262>>,
        <<3240, 3275, 3233, 3265, 3236, 3277, 3236, 3262>>>>
    >>

\* `old in s`
Contains(s, old) ==
    \E i \in 1..(Len(s) - Len(old) + 1) : SubSeq(s, i, i + Len(old) - 1) = old

\* s.replace(old, new): every non-overlapping occurrence, left to right.
RECURSIVE Replace(_, _, _)
Replace(s, old, new) ==
    IF Len(s) < Len(old) THEN s
    ELSE IF SubSeq(s, 1, Len(old)) = old
    THEN new \o Replace(SubSeq(s, Len(old) + 1, Len(s)), old, new)
    ELSE <<Head(s)>> \o Replace(Tail(s), old, new)

\* The loop with a break after the first rule that fires.
RECURSIVE NormalizeFrom_first_rule_only(_, _, _)
NormalizeFrom_first_rule_only(k, normalized, fired) ==
    IF k > Len(_REPLACEMENTS) THEN [normalized |-> normalized, fired |-> fired]
    ELSE LET colloquial == _REPLACEMENTS[k][1]
             standard == _REPLACEMENTS[k][2]
         IN  IF colloquial = standard
             THEN NormalizeFrom_first_rule_only(k + 1, normalized, fired)
             ELSE IF Contains(normalized, colloquial)
             THEN [normalized |-> Replace(normalized, colloquial, standard),
                   fired |-> fired \cup {k}]
             ELSE NormalizeFrom_first_rule_only(k + 1, normalized, fired)

\* `for colloquial, standard in _REPLACEMENTS` from rule k on; `fired` are
\* the rules that replaced something (the ones the loop logs).
RECURSIVE NormalizeFrom(_, _, _)
NormalizeFrom(k, normalized, fired) ==
    IF k > Len(_REPLACEMENTS) THEN [normalized |-> normalized, fired |-> fired]
    ELSE LET colloquial == _REPLACEMENTS[k][1]
             standard == _REPLACEMENTS[k][2]
         IN  IF colloquial = standard
             THEN NormalizeFrom(k + 1, normalized, fired)
             ELSE IF Contains(normalized, colloquial)
             THEN NormalizeFrom(k + 1, Replace(normalized, colloquial, standard),
                                fired \cup {k})
             ELSE NormalizeFrom(k + 1, normalized, fired)

normalize_kannada(text) == NormalizeFrom(1, text, {}).normalized

FiredRules(text) == NormalizeFrom(1, text, {}).fired

MaxPieces == 2

\* A colloquial form without its last code point: a word that stops short
\* of the form.
DropLast(s) == SubSeq(s, 1, Len(s) - 1)

NormPieces ==
    {_REPLACEMENTS[k][1] : k \in 1..Len(_REPLACEMENTS)}
        \cup {DropLast(_REPLACEMENTS[k][1]) : k \in 1..Len(_REPLACEMENTS)}
        \cup {<<32>>}

RECURSIVE Concat(_)
Concat(ps) == IF ps = <<>> THEN <<>> ELSE Head(ps) \o Concat(Tail(ps))

NormTexts == {Concat(ps) : ps \in SeqsUpTo(NormPieces, MaxPieces)} \cup {DocExample}

NormalizeIdle ==
    /\ n_pc = "idle"
    /\ n_text = <<>>
    /\ n_once = <<>>
    /\ n_fired = {}
    /\ n_twice = <<>>

NormalizeInit ==
    /\ n_pc = "input"
    /\ n_text \in NormTexts
    /\ n_once = <<>>
    /\ n_fired = {}
    /\ n_twice = <<>>

\* normalize_kannada(text)
N_Normalize ==
    /\ n_pc = "input"
    /\ n_once' = normalize_kannada(n_text)
    /\ n_fired' = FiredRules(n_text)
    /\ n_pc' = "once"
    /\ UNCHANGED <<n_text, n_twice>>
    /\ UNCHANGED outsideNormalize

\* normalize_kannada applied to its own result
N_NormalizeAgain ==
    /\ n_pc = "once"
    /\ n_twice' = normalize_kannada(n_once)
    /\ n_pc' = "twice"
    /\ UNCHANGED <<n_text, n_once, n_fired>>
    /\ UNCHANGED outsideNormalize

NormalizeNext == N_Normalize \/ N_NormalizeAgain

(***************************************************************************)
(* pipeline/translate.py                                                   *)
(***************************************************************************)
_LANG_KN == "kan_Knda"
_LANG_EN == "eng_Latn"
_LANG_HI == "hin_Deva"

\* What tokenizer.batch_decode may give back for one generate call:
\* " hi ", "ok", and a blank string.
EngineReplies == { <<32, 104, 105, 32>>, <<111, 107>>, <<32>> }

NoCall == [ok |-> TRUE, result |-> <<>>, calls |-> <<>>]

\* One run of the tokenizer and model.generate: its text and language pair,
\* whether it returned, and the string _translate made of its reply.
EngineCall(text, src_lang, tgt_lang, ok, returned) ==
    [text |-> text, src |-> src_lang, tgt |-> tgt_lang, ok |-> ok, returned |-> returned]

\* NLLBTranslator._translate: the outcomes of one single-hop call.  An
\* outcome is the engine calls it issued, whether it returned, and the
\* string it returned; the tokenizer or model.generate may raise.
\* A _translate without the early return for blank text.
_translate_no_guard(text, src_lang, tgt_lang) ==
    {[ok |-> TRUE, result |-> Strip(r),
      calls |-> <<EngineCall(text, src_lang, tgt_lang, TRUE, Strip(r))>>] :
         r \in EngineReplies}
    \cup {[ok |-> FALSE, result |-> <<>>,
           calls |-> <<EngineCall(text, src_lang, tgt_lang, FALSE, <<>>)>>]}

_translate(text, src_lang, tgt_lang) ==
    IF Strip(text) = <<>> THEN {NoCall}
    ELSE {[ok |-> TRUE, result |-> Strip(r),
           calls |-> <<EngineCall(text, src_lang, tgt_lang, TRUE, Strip(r))>>] :
              r \in EngineReplies}
         \cup {[ok |-> FALSE, result |-> <<>>,
                calls |-> <<EngineCall(text, src_lang, tgt_lang, FALSE, <<>>)>>]}

\* A translate that asks the engine for Kannada -> Hindi in one call.
translate_direct(text) ==
    IF Strip(text) = <<>> THEN {NoCall}
    ELSE _translate(text, _LANG_KN, _LANG_HI)

\* NLLBTranslator.translate: Kannada -> English -> Hindi.
translate(text) ==
    IF Strip(text) = <<>> THEN {NoCall}
    ELSE UNION {
            IF ~ english.ok THEN {english}
            ELSE {[ok |-> hindi.ok, result |-> hindi.result,
                   calls |-> english.calls \o hindi.calls] :
                      hindi \in _translate(english.result, _LANG_EN, _LANG_HI)} :
            english \in _translate(text, _LANG_KN, _LANG_EN)}

\* translator.translate(text) called on its own.
PivotTexts == GateTexts

PivotIdle ==
    /\ p_pc = "idle"
    /\ p_text = <<>>
    /\ p_out = NoCall

PivotInit ==
    /\ p_pc = "input"
    /\ p_text \in PivotTexts
    /\ p_out = NoCall

P_Translate ==
    /\ p_pc = "input"
    /\ p_out' \in translate(p_text)
    /\ p_pc' = "done"
    /\ UNCHANGED p_text
    /\ UNCHANGED outsidePivot

\* self._translate(text, src_lang, tgt_lang) called on its own.
HopPairs == { <<_LANG_KN, _LANG_EN>>, <<_LANG_EN, _LANG_HI>> }

P_Hop ==
    /\ p_pc = "input"
    /\ \E pair \in HopPairs : p_out' \in _translate(p_text, pair[1], pair[2])
    /\ p_pc' = "hop"
    /\ UNCHANGED p_text
    /\ UNCHANGED outsidePivot

PivotNext == P_Translate \/ P_Hop

(***************************************************************************)
(* refine.py: HindiRefiner                                                 *)
(***************************************************************************)
\* message.content of the chat completion, when the request succeeds.
RefinerReplies == { <<32, 104, 105, 32>>, <<111, 107>> }

\* Nothing was asked of the refiner.
NoRefinement == [api_ok |-> TRUE, raised |-> FALSE, result |-> <<>>]

\* HindiRefiner.refine: the outcomes of one call.  The request is made with
\* no handler around it, so a failed request leaves refine by the exception.
refine(text) ==
    {[api_ok |-> TRUE, raised |-> FALSE, result |-> Strip(r)] : r \in RefinerReplies}
        \cup {[api_ok |-> FALSE, raised |-> TRUE, result |-> <<>>]}

RefineTexts == GateTexts

RefineIdle ==
    /\ f_pc = "idle"
    /\ f_text = <<>>
    /\ f_out = NoRefinement

RefineInit ==
    /\ f_pc = "new"
    /\ f_text \in RefineTexts
    /\ f_out = NoRefinement

\* HindiRefiner(): OpenAI(api_key=...) raises when no key is configured.
F_Construct ==
    /\ f_pc = "new"
    /\ f_pc' \in {"ready", "failed"}
    /\ UNCHANGED <<f_text, f_out>>
    /\ UNCHANGED outsideRefine

F_Refine ==
    /\ f_pc = "ready"
    /\ f_out' \in refine(f_text)
    /\ f_pc' = "done"
    /\ UNCHANGED f_text
    /\ UNCHANGED outsideRefine

RefineNext == F_Construct \/ F_Refine

MaxTranscriptSegs == 2

\* Segments of the transcript file: spans as transcribe_audio writes them
\* (whole milliseconds) and spans it never writes (0.0625 s, 0.5625 s).
XStarts == {0, 1000}
XDurations == {MIN_DURATION, MIN_DURATION + 1000}

\* the docstring example, " ", "abcde"
XTexts == { DocExample, <<32>>, <<97, 98, 99, 100, 101>> }

XSegments ==
    {[start |-> s, end |-> s + d, text |-> t] :
        s \in XStarts, d \in XDurations, t \in XTexts}

Transcripts ==
    {[language |-> "kn", segments |-> segs] :
        segs \in SeqsUpTo(XSegments, MaxTranscriptSegs)}

TranslateIdle ==
    /\ x_pc = "idle"
    /\ x_in = NoFile
    /\ x_data = NoFile
    /\ x_loads = 0
    /\ x_idx = 0
    /\ x_translated = <<>>
    /\ x_calls = <<>>
    /\ x_file = NoFile
    /\ x_returned = NoFile

TranslateInit ==
    /\ x_pc = "read"
    /\ x_in \in Transcripts \cup {NoFile}
    /\ x_data = NoFile
    /\ x_loads = 0
    /\ x_idx = 0
    /\ x_translated = <<>>
    /\ x_calls = <<>>
    /\ x_file = NoFile
    /\ x_returned = NoFile

\* open(input_json) and json.load; a missing file raises.
X_Read ==
    /\ x_pc = "read"
    /\ IF x_in = NoFile
       THEN x_pc' = "failed" /\ UNCHANGED x_data
       ELSE x_pc' = "init" /\ x_data' = x_in
    /\ UNCHANGED <<x_in, x_loads, x_idx, x_translated, x_calls, x_file, x_returned>>
    /\ UNCHANGED outsideTranslate

\* translator = NLLBTranslator(): from_pretrained loads tokenizer and
\* weights; it may raise.
X_LoadModel ==
    /\ x_pc = "init"
    /\ x_loads' = x_loads + 1
    /\ x_pc' \in {"loop", "failed"}
    /\ UNCHANGED <<x_in, x_data, x_idx, x_translated, x_calls, x_file, x_returned>>
    /\ UNCHANGED outsideTranslate

\* A loop that builds a new NLLBTranslator for every segment.
X_LoopStep_reload ==
    /\ x_pc = "loop"
    /\ x_idx < Len(x_data.segments)
    /\ LET seg == x_data.segments[x_idx + 1]
           text_kn_raw == Strip(seg.text)
           text_kn_clean == normalize_kannada(text_kn_raw)
       IN  \E out \in translate(text_kn_clean) :
              /\ x_calls' = x_calls \o out.calls
              /\ IF out.ok
                 THEN /\ x_translated' =
                            Append(x_translated,
                                   [start |-> Round3(seg.start),
                                    end |-> Round3(seg.end),
                                    text_kn_raw |-> text_kn_raw,
                                    text_kn_clean |-> text_kn_clean,
                                    text_hi |-> out.result])
                      /\ x_idx' = x_idx + 1
                      /\ UNCHANGED x_pc
                 ELSE /\ x_pc' = "failed"
                      /\ UNCHANGED <<x_translated, x_idx>>
    /\ x_loads' = x_loads + 1
    /\ UNCHANGED <<x_in, x_data, x_file, x_returned>>
    /\ UNCHANGED outsideTranslate

\* One iteration of `for idx, seg in enumerate(data["segments"], start=1)`.
X_LoopStep ==
    /\ x_pc = "loop"
    /\ x_idx < Len(x_data.segments)
    /\ LET seg == x_data.segments[x_idx + 1]
           text_kn_raw == Strip(seg.text)
           text_kn_clean == normalize_kannada(text_kn_raw)
       IN  \E out \in translate(text_kn_clean) :
              /\ x_calls' = x_calls \o out.calls
              /\ IF out.ok
                 THEN /\ x_translated' =
                            Append(x_translated,
                                   [start |-> Round3(seg.start),
                                    end |-> Round3(seg.end),
                                    text_kn_raw |-> text_kn_raw,
                                    text_kn_clean |-> text_kn_clean,
                                    text_hi |-> out.result])
                      /\ x_idx' = x_idx + 1
                      /\ UNCHANGED x_pc
                 ELSE /\ x_pc' = "failed"
                      /\ UNCHANGED <<x_translated, x_idx>>
    /\ UNCHANGED <<x_in, x_data, x_loads, x_file, x_returned>>
    /\ UNCHANGED outsideTranslate

\* mkdir, open(output, "w"), json.dump, return final_output.
X_Write ==
    /\ x_pc = "loop"
    /\ x_idx = Len(x_data.segments)
    /\ LET final_output == [source_language |-> "kn", target_language |-> "hi",
                            segments |-> x_translated] IN
       \/ /\ x_file' = final_output
          /\ x_returned' = final_output
          /\ x_pc' = "done"
       \/ /\ x_file' \in {x_file, PartialFile}
          /\ UNCHANGED x_returned
          /\ x_pc' = "failed"
    /\ UNCHANGED <<x_in, x_data, x_loads, x_idx, x_translated, x_calls>>
    /\ UNCHANGED outsideTranslate

TranslateNext == X_Read \/ X_LoadModel \/ X_LoopStep \/ X_Write

(***************************************************************************)
(* dub_video.py: run_pipeline, with pipeline/extract.py                    *)
(***************************************************************************)
MaxRuns == 2
MaxClipTime == 2

InputPath == "massage2.mp4"

\* The `outputs` dict for outdir "outputs".
outputs ==
    [clip |-> "outputs/clip.mp4",
     audio |-> "outputs/audio.wav",
     transcript |-> "outputs/transcript.json",
     translated |-> "outputs/translated.json"]

ArtifactPaths == {outputs.clip, outputs.audio, outputs.transcript, outputs.translated}

Stages == <<"extract_segment", "extract_audio", "transcribe_audio", "translate_transcript">>

\* run_pipeline handing the source video to extract_audio.
StageInput_source_video(k) ==
    CASE k = 1 -> InputPath
      [] k = 2 -> InputPath
      [] k = 3 -> outputs.audio
      [] k = 4 -> outputs.transcript

\* The path each call in run_pipeline is given to read.
StageInput(k) ==
    CASE k = 1 -> InputPath
      [] k = 2 -> outputs.clip
      [] k = 3 -> outputs.audio
      [] k = 4 -> outputs.transcript

\* The path each call in run_pipeline is given to write.
StageOutput(k) ==
    CASE k = 1 -> outputs.clip
      [] k = 2 -> outputs.audio
      [] k = 3 -> outputs.transcript
      [] k = 4 -> outputs.translated

\* run_pipeline about to make call k.
StepPc == <<"step1", "step2", "step3", "step4">>

\* A run that goes on to the next call although the call raised.
AfterStage_swallow(k, ok) ==
    IF k = 4 THEN "done" ELSE StepPc[k + 1]

\* Where run_pipeline stands after call k: a call that raises ends the run,
\* as nothing catches the exception.
AfterStage(k, ok) ==
    IF ~ ok THEN "failed"
    ELSE IF k = 4 THEN "done" ELSE StepPc[k + 1]

\* A file a call of run number `run` wrote completely, or left half-written.
Written(run) == [by |-> run, complete |-> TRUE]
Partial(run) == [by |-> run, complete |-> FALSE]

Invocation(k) ==
    [stage |-> Stages[k], input |-> StageInput(k), output |-> StageOutput(k),
     existed |-> r_fs[StageOutput(k)] # NoFile, ok |-> TRUE]

PipelineIdle ==
    /\ r_pc = "idle"
    /\ r_run = 0
    /\ r_args = [start_time |-> 0, end_time |-> 0]
    /\ r_prev = [ran |-> FALSE]
    /\ r_fs = [p \in ArtifactPaths \cup {InputPath} |-> NoFile]
    /\ r_dir = FALSE
    /\ r_fs0 = r_fs
    /\ r_log = <<>>
    /\ r_tool = <<>>

\* No run yet; the source video is there or is not.
PipelineInit ==
    /\ r_pc = "idle"
    /\ r_run = 0
    /\ r_args = [start_time |-> 0, end_time |-> 0]
    /\ r_prev = [ran |-> FALSE]
    /\ \E src \in {NoFile, Written(0)} :
          r_fs = [p \in ArtifactPaths \cup {InputPath} |->
                     IF p = InputPath THEN src ELSE NoFile]
    /\ r_dir = FALSE
    /\ r_fs0 = r_fs
    /\ r_log = <<>>
    /\ r_tool = <<>>

\* run_pipeline(input_path, start_time, end_time, outdir) is called.
R_Start ==
    /\ r_pc \in {"idle", "done", "failed"}
    /\ r_run < MaxRuns
    /\ r_run' = r_run + 1
    /\ \E s \in 0..MaxClipTime, e \in 0..MaxClipTime :
          r_args' = [start_time |-> s, end_time |-> e]
    /\ r_prev' = IF r_pc = "idle" THEN [ran |-> FALSE]
                 ELSE [ran |-> TRUE, ok |-> r_pc = "done", args |-> r_args]
    /\ r_fs0' = r_fs
    /\ r_log' = <<>>
    /\ r_tool' = <<>>
    /\ r_pc' = StepPc[1]
    /\ UNCHANGED <<r_fs, r_dir>>
    /\ UNCHANGED outsidePipeline

\* STEP 1: extract_segment(input_path, outputs["clip"], start_time, end_time)
R_ExtractSegment ==
    /\ r_pc = StepPc[1]
    /\ LET duration == r_args.end_time - r_args.start_time
           cmd == [input |-> StageInput(1), output |-> StageOutput(1)]
       IN  IF duration <= 0
           THEN \* raise ValueError
                /\ r_log' = Append(r_log, [Invocation(1) EXCEPT !.ok = FALSE])
                /\ r_pc' = AfterStage(1, FALSE)
                /\ UNCHANGED <<r_fs, r_dir, r_tool>>
           ELSE \* mkdir, then _run_ffmpeg
                /\ r_dir' = TRUE
                /\ r_tool' = Append(r_tool, cmd)
                /\ \/ \* exit 0
                      /\ r_fs[StageInput(1)] # NoFile
                      /\ r_fs' = [r_fs EXCEPT ![StageOutput(1)] = Written(r_run)]
                      /\ r_log' = Append(r_log, Invocation(1))
                      /\ r_pc' = AfterStage(1, TRUE)
                   \/ \* nonzero exit with nothing written: raise RuntimeError
                      /\ UNCHANGED r_fs
                      /\ r_log' = Append(r_log, [Invocation(1) EXCEPT !.ok = FALSE])
                      /\ r_pc' = AfterStage(1, FALSE)
                   \/ \* nonzero exit part-way through the output
                      /\ r_fs[StageInput(1)] # NoFile
                      /\ r_fs' = [r_fs EXCEPT ![StageOutput(1)] = Partial(r_run)]
                      /\ r_log' = Append(r_log, [Invocation(1) EXCEPT !.ok = FALSE])
                      /\ r_pc' = AfterStage(1, FALSE)
    /\ UNCHANGED <<r_run, r_args, r_prev, r_fs0>>
    /\ UNCHANGED outsidePipeline

\* STEP 2: extract_audio(outputs["clip"], outputs["audio"])
R_ExtractAudio ==
    /\ r_pc = StepPc[2]
    /\ r_dir' = TRUE
    /\ r_tool' = Append(r_tool, [input |-> StageInput(2), output |-> StageOutput(2)])
    /\ \/ /\ r_fs[StageInput(2)] # NoFile
          /\ r_fs' = [r_fs EXCEPT ![StageOutput(2)] = Written(r_run)]
          /\ r_log' = Append(r_log, Invocation(2))
          /\ r_pc' = AfterStage(2, TRUE)
       \/ /\ r_fs' \in {r_fs, [r_fs EXCEPT ![StageOutput(2)] = Partial(r_run)]}
          /\ r_log' = Append(r_log, [Invocation(2) EXCEPT !.ok = FALSE])
          /\ r_pc' = AfterStage(2, FALSE)
    /\ UNCHANGED <<r_run, r_args, r_prev, r_fs0>>
    /\ UNCHANGED outsidePipeline

\* STEP 3: transcribe_audio(outputs["audio"], outputs["transcript"]); it
\* writes its output last, or raises before (engine) or while writing.
R_Transcribe ==
    /\ r_pc = StepPc[3]
    /\ \/ /\ r_fs[StageInput(3)] # NoFile
          /\ r_fs' = [r_fs EXCEPT ![StageOutput(3)] = Written(r_run)]
          /\ r_log' = Append(r_log, Invocation(3))
          /\ r_pc' = AfterStage(3, TRUE)
       \/ /\ r_fs' \in {r_fs, [r_fs EXCEPT ![StageOutput(3)] = Partial(r_run)]}
          /\ r_log' = Append(r_log, [Invocation(3) EXCEPT !.ok = FALSE])
          /\ r_pc' = AfterStage(3, FALSE)
    /\ UNCHANGED <<r_run, r_args, r_prev, r_fs0, r_dir, r_tool>>
    /\ UNCHANGED outsidePipeline

\* STEP 4: translate_transcript(outputs["transcript"], outputs["translated"])
R_Translate ==
    /\ r_pc = StepPc[4]
    /\ \/ /\ r_fs[StageInput(4)] # NoFile
          /\ r_fs' = [r_fs EXCEPT ![StageOutput(4)] = Written(r_run)]
          /\ r_log' = Append(r_log, Invocation(4))
          /\ r_pc' = AfterStage(4, TRUE)
       \/ /\ r_fs' \in {r_fs, [r_fs EXCEPT ![StageOutput(4)] = Partial(r_run)]}
          /\ r_log' = Append(r_log, [Invocation(4) EXCEPT !.ok = FALSE])
          /\ r_pc' = AfterStage(4, FALSE)
    /\ UNCHANGED <<r_run, r_args, r_prev, r_fs0, r_dir, r_tool>>
    /\ UNCHANGED outsidePipeline

PipelineNext == R_Start \/ R_ExtractSegment \/ R_ExtractAudio \/ R_Transcribe \/ R_Translate

(***************************************************************************)
(* Specifications                                                          *)
(***************************************************************************)
\* SPECS-BEGIN
PipelineSpecInit ==
    PipelineInit /\ GateIdle /\ TranscribeIdle /\ NormalizeIdle /\ TranslateIdle /\ PivotIdle /\ RefineIdle
Spec == PipelineSpecInit /\ [][PipelineNext]_vars

GateSpecInit ==
    GateInit /\ PipelineIdle /\ TranscribeIdle /\ NormalizeIdle /\ TranslateIdle /\ PivotIdle /\ RefineIdle
SpecGate == GateSpecInit /\ [][GateNext]_vars

TranscribeSpecInit ==
    TranscribeInit /\ PipelineIdle /\ GateIdle /\ NormalizeIdle /\ TranslateIdle /\ PivotIdle /\ RefineIdle
SpecTranscribe == TranscribeSpecInit /\ [][TranscribeNext]_vars

NormalizeSpecInit ==
    NormalizeInit /\ PipelineIdle /\ GateIdle /\ TranscribeIdle /\ TranslateIdle /\ PivotIdle /\ RefineIdle
SpecNormalize == NormalizeSpecInit /\ [][NormalizeNext]_vars

TranslateSpecInit ==
    TranslateInit /\ PipelineIdle /\ GateIdle /\ TranscribeIdle /\ NormalizeIdle /\ PivotIdle /\ RefineIdle
SpecTranslate == TranslateSpecInit /\ [][TranslateNext]_vars

PivotSpecInit ==
    PivotInit /\ PipelineIdle /\ GateIdle /\ TranscribeIdle /\ NormalizeIdle /\ TranslateIdle /\ RefineIdle
SpecPivot == PivotSpecInit /\ [][PivotNext]_vars

RefineSpecInit ==
    /\ RefineInit /\ PipelineIdle /\ GateIdle /\ TranscribeIdle /\ NormalizeIdle
    /\ TranslateIdle /\ PivotIdle
SpecRefine == RefineSpecInit /\ [][RefineNext]_vars

\* SPECS-END

(***************************************************************************)
(* Properties of run_pipeline                                              *)
(***************************************************************************)
AllArtifactsPresent(fs) == \A p \in ArtifactPaths : fs[p] # NoFile

\* C1: no stage is called while its output artifact, completely written by
\* an earlier run, is on disk; and a run that repeats the arguments of a
\* successful run, with every artifact on disk, calls no stage.
C1_StageOnlyIfOutputAbsent ==
    /\ \A i \in 1..Len(r_log) :
          ~ (r_log[i].existed /\ r_fs0[r_log[i].output].complete)
    /\ (r_prev.ran /\ r_prev.ok /\ r_prev.args = r_args /\ AllArtifactsPresent(r_fs0))
          => r_log = <<>>

\* C2: a call that raised is the last call of its run and is made once, the
\* run has ended in failure, and the artifact of every earlier call of the
\* run is on disk as that call wrote it.
C2_FailureAbortsRun ==
    \A i \in 1..Len(r_log) :
        ~ r_log[i].ok =>
            /\ i = Len(r_log)
            /\ r_pc = "failed"
            /\ \A j \in 1..Len(r_log) : j # i => r_log[j].stage # r_log[i].stage
            /\ \A j \in 1..(i - 1) :
                  /\ r_log[j].ok
                  /\ r_fs[r_log[j].output] = [by |-> r_run, complete |-> TRUE]

\* The third call of a second run raised after two calls wrote their
\* artifacts.
C2_Witness ==
    /\ r_pc = "failed"
    /\ r_run = 2
    /\ Len(r_log) = 3
    /\ ~ r_log[3].ok
    /\ r_fs["outputs/clip.mp4"] = [by |-> 2, complete |-> TRUE]
    /\ r_fs["outputs/audio.wav"] = [by |-> 2, complete |-> TRUE]

\* C3: the calls of a run are a prefix of extract_segment, extract_audio,
\* transcribe_audio, translate_transcript, each made after the one before
\* it returned, and each reading the path the one before it wrote.
C3_LinearOrder ==
    /\ Len(r_log) <= 4
    /\ \A i \in 1..Len(r_log) :
          r_log[i].stage =
              <<"extract_segment", "extract_audio", "transcribe_audio",
                "translate_transcript">>[i]
    /\ \A i \in 2..Len(r_log) :
          /\ r_log[i - 1].ok
          /\ r_log[i].input = r_log[i - 1].output
    /\ \A k \in 1..4 :
          r_pc = StepPc[k] => (Len(r_log) = k - 1 /\ \A j \in 1..(k - 1) : r_log[j].ok)

\* A run that made all four calls.
C3_Witness ==
    /\ r_pc = "done"
    /\ Len(r_log) = 4
    /\ r_log[4].input = "outputs/transcript.json"

\* C4: a run given a missing source video or end_time <= start_time ends in
\* its first call without running ffmpeg and without touching a file.
C4_InputErrorBeforeTool ==
    (/\ r_pc = "failed"
     /\ Len(r_log) = 1
     /\ (r_fs0["massage2.mp4"] = NoFile \/ r_args.end_time <= r_args.start_time))
        => (r_tool = <<>> /\ r_fs = r_fs0)

(***************************************************************************)
(* Properties of the quality gate                                          *)
(***************************************************************************)
DistinctChars(s) == Cardinality({s[i] : i \in DOMAIN s})

IsHallucination(s) == \E h \in _KNOWN_HALLUCINATIONS : Lower(Strip(s)) = Lower(h)

PassesTextRules(s) ==
    /\ Len(Strip(s)) >= 3
    /\ DistinctChars(Strip(s)) >= 5
    /\ ~ IsHallucination(s)

\* C5: whatever the text, a call with duration < 0.5 s returns reject, and
\* the duration rule is the only rule the call evaluated.
C5_ShortDurationRejectedFirst ==
    (g_pc = "done" /\ g_duration < 8000)
        => (~ g_result.valid /\ g_result.evaluated = <<"duration">>)

\* A call with a short duration and a text that passes every text rule.
C5_Witness ==
    /\ g_pc = "done"
    /\ g_duration < 8000
    /\ g_duration > 0
    /\ PassesTextRules(g_text)
    /\ ~ g_result.valid

\* C6: the gate keeps a segment exactly when duration >= 0.5 s, the trimmed
\* text has at least 3 characters and at least 5 distinct characters, and the
\* lowercased trimmed text equals no lowercased hallucination entry.
C6_KeepIffAllFourRules ==
    g_pc = "done"
        => (g_result.valid <=> (g_duration >= 8000 /\ PassesTextRules(g_text)))

\* A padded, differently-cased hallucination entry of sufficient duration,
\* length and uniqueness is rejected.
C6_Witness ==
    /\ g_pc = "done"
    /\ g_duration >= 8000
    /\ Strip(g_text) # g_text
    /\ Lower(Strip(g_text)) # Strip(g_text)
    /\ Len(Strip(g_text)) >= 3
    /\ DistinctChars(Strip(g_text)) >= 5
    /\ IsHallucination(g_text)
    /\ ~ g_result.valid

\* A text that merely contains a hallucination entry is kept.
C6_WitnessSubstring ==
    /\ g_pc = "done"
    /\ g_text = <<91, 109, 117, 115, 105, 99, 93, 33>>
    /\ g_result.valid

(***************************************************************************)
(* Properties of transcribe_audio                                          *)
(***************************************************************************)
GatePasses(seg) ==
    /\ seg.end - seg.start >= 8000
    /\ PassesTextRules(seg.text)

\* The raw segments that pass the gate, in emission order, each as it is
\* stored: spans rounded to the millisecond, text trimmed.
RECURSIVE KeptOf(_)
KeptOf(raw) ==
    IF raw = <<>> THEN <<>>
    ELSE LET seg == Head(raw) IN
         (IF GatePasses(seg)
          THEN <<[start |-> Round3(seg.start), end |-> Round3(seg.end),
                  text |-> Strip(seg.text)]>>
          ELSE <<>>) \o KeptOf(Tail(raw))

NonDecreasingByStart(segs) ==
    \A i \in 1..Len(segs) : \A j \in i..Len(segs) : segs[i].start <= segs[j].start

\* C7: once the loop is over, the segment list is the gate-passing
\* subsequence of the engine's output in emission order, kept + rejected is
\* the number of raw segments, the logged counts are these, and a
\* non-decreasing engine output gives a non-decreasing transcript; the
\* returned and the written transcript hold that list.
C7_TranscriptIsGatedSubsequence ==
    /\ t_pc \in {"write", "done"} =>
        /\ t_segments = KeptOf(t_raw)
        /\ Len(t_segments) + t_rejected = Len(t_raw)
        /\ t_log = <<Len(t_segments), t_rejected>>
        /\ NonDecreasingByStart(t_raw) => NonDecreasingByStart(t_segments)
    /\ t_pc = "done" =>
        /\ t_returned.segments = KeptOf(t_raw)
        /\ t_file = t_returned

\* A finished call that rejected the first raw segment and kept the second,
\* whose start round(x, 3) changed.
C7_Witness ==
    /\ t_pc = "done"
    /\ Len(t_raw) = 2
    /\ t_rejected = 1
    /\ Len(t_returned.segments) = 1
    /\ t_returned.segments[1].start # t_raw[2].start
    /\ GatePasses(t_raw[2])

(***************************************************************************)
(* Properties of normalize_kannada                                         *)
(***************************************************************************)
\* No rule's standard form contains another rule's colloquial form.
WellFormed(table) ==
    \A i \in 1..Len(table) : \A j \in 1..Len(table) :
        i # j => ~ Contains(table[i][2], table[j][1])

\* C8: with a well-formed table, normalizing a normalized text changes
\* nothing.
C8_NormalizeIdempotent ==
    (n_pc = "twice" /\ WellFormed(_REPLACEMENTS)) => n_twice = n_once

\* "ಸ್ವಲ್ಪ ನೋಡುತ್ತಾ ಇರಿ"
DocExpected ==
    <<3256, 3277, 3253, 3250, 3277, 3242, 32, 3240, 3275, 3233, 3265, 3236, 3277,
      3236, 3262, 32, 3207, 3248, 3263>>

\* C9: the docstring example normalizes to exactly the documented result;
\* the rules that fire are rule 3 and rule 21 alone, and an identity rule
\* never fires on any text.
C9_DocExampleNormalizes ==
    /\ (n_pc # "input" /\ n_text = DocExample) =>
          (n_once = DocExpected /\ n_fired = {3, 21})
    /\ n_pc # "input" =>
          \A k \in n_fired : _REPLACEMENTS[k][1] # _REPLACEMENTS[k][2]

\* The docstring example has been normalized and came out changed.
C9_Witness ==
    /\ n_pc = "once"
    /\ n_text = DocExample
    /\ n_once # n_text

(***************************************************************************)
(* Properties of translate_transcript                                      *)
(***************************************************************************)
\* C10: the translation has as many segments as the transcript and, position
\* by position, the transcript segment's (start, end).
C10_SpansCopiedUnchanged ==
    x_pc = "done" =>
        /\ Len(x_returned.segments) = Len(x_in.segments)
        /\ \A i \in 1..Len(x_in.segments) :
              /\ x_returned.segments[i].start = x_in.segments[i].start
              /\ x_returned.segments[i].end = x_in.segments[i].end

(***************************************************************************)
(* Properties of NLLBTranslator.translate                                  *)
(***************************************************************************)
Blank(s) == \A i \in 1..Len(s) : s[i] \in Whitespace

\* C11: a translate call that returns for a non-blank text issued the
\* Kannada -> English call on the text first; the English -> Hindi call, if
\* any, second and on what the first call returned, its result being the
\* result of translate; and no Kannada -> Hindi call.
C11_PivotIsTwoHops ==
    (p_pc = "done" /\ ~ Blank(p_text)) =>
        /\ \A i \in 1..Len(p_out.calls) :
              ~ (p_out.calls[i].src = "kan_Knda" /\ p_out.calls[i].tgt = "hin_Deva")
        /\ Len(p_out.calls) >= 1
        /\ p_out.calls[1].text = p_text
        /\ p_out.calls[1].src = "kan_Knda"
        /\ p_out.calls[1].tgt = "eng_Latn"
        /\ (p_out.calls[1].ok /\ p_out.calls[1].returned # <<>>) =>
              /\ Len(p_out.calls) = 2
              /\ p_out.calls[2].text = p_out.calls[1].returned
              /\ p_out.calls[2].src = "eng_Latn"
              /\ p_out.calls[2].tgt = "hin_Deva"
              /\ p_out.ok = p_out.calls[2].ok
              /\ p_out.ok => p_out.result = p_out.calls[2].returned
        /\ ~ (p_out.calls[1].ok /\ p_out.calls[1].returned # <<>>) =>
              Len(p_out.calls) = 1

\* A translate call that went through both hops and returned Hindi text.
C11_Witness ==
    /\ p_pc = "done"
    /\ p_out.ok
    /\ Len(p_out.calls) = 2
    /\ p_out.result # <<>>
    /\ p_out.calls[2].text # p_text

\* C13: translate and _translate return the empty string for an empty or
\* whitespace-only text without running the engine; the engine is never run
\* on such a text, and a pivot whose first hop returned the empty string
\* returns the empty string after that one engine call.
C13_BlankTextSkipsEngine ==
    (p_pc \in {"done", "hop"}) =>
        /\ Blank(p_text) =>
              /\ p_out.ok
              /\ p_out.result = <<>>
              /\ p_out.calls = <<>>
        /\ \A i \in 1..Len(p_out.calls) : ~ Blank(p_out.calls[i].text)
        /\ (/\ p_pc = "done"
            /\ Len(p_out.calls) >= 1
            /\ p_out.calls[1].ok
            /\ Blank(p_out.calls[1].returned)) =>
              /\ Len(p_out.calls) = 1
              /\ p_out.ok
              /\ p_out.result = <<>>

\* translate returned for a pivot whose first hop came back empty.
C13_Witness ==
    /\ p_pc = "done"
    /\ Len(p_out.calls) = 1
    /\ p_out.calls[1].ok
    /\ p_out.calls[1].returned = <<>>
    /\ p_out.result = <<>>

\* translate and _translate returned for a whitespace-only text.
C13_WitnessWhitespace ==
    /\ p_pc \in {"done", "hop"}
    /\ p_text # <<>>
    /\ Blank(p_text)
    /\ p_out = NoCall

(***************************************************************************)
(* Properties of HindiRefiner.refine                                       *)
(***************************************************************************)
\* C12: when the refinement request for a text fails, refine does not raise
\* and the caller is left with the unrefined text.
C12_RefineFailureFallsBack ==
    (f_pc = "done" /\ ~ f_out.api_ok) =>
        /\ ~ f_out.raised
        /\ f_out.result = f_text

(***************************************************************************)
(* Failure of the recognition engine in transcribe_audio                   *)
(***************************************************************************)
\* C14: when loading or running the recognition model raised, transcribe_audio
\* has failed, returned nothing and left output_json as it found it; and
\* output_json differs from what it was at entry only once every raw segment
\* has been gated and the counts logged.
C14_EngineFailureLeavesNoTranscript ==
    /\ t_error \in {"load", "engine"} =>
          /\ t_pc = "failed"
          /\ t_returned = NoFile
          /\ t_file = t_file0
          /\ t_segments = <<>>
    /\ t_file # t_file0 =>
          /\ t_pc \in {"done", "failed"}
          /\ t_error \in {"", "write"}
          /\ t_idx = Len(t_raw)
          /\ t_log = <<Len(t_segments), t_rejected>>
          /\ Len(t_segments) + t_rejected = Len(t_raw)

\* model.transcribe raised over a transcript left by an earlier invocation.
C14_Witness ==
    /\ t_pc = "failed"
    /\ t_error = "engine"
    /\ t_file0 = OldTranscript
    /\ t_file = OldTranscript
    /\ t_returned = NoFile

(***************************************************************************)
(* Model loading in translate_transcript                                   *)
(***************************************************************************)
\* C15: translate_transcript builds the NLLBTranslator at most once, and it
\* has been built exactly once whenever the segment loop is entered, a
\* segment has been processed or an engine call has been issued, whatever
\* the number of segments and hops.
C15_ModelLoadedOnce ==
    /\ x_loads <= 1
    /\ (x_pc \in {"loop", "done"} \/ x_idx > 0 \/ x_calls # <<>>) => x_loads = 1

\* Two segments were translated with several engine calls and one load.
C15_Witness ==
    /\ x_pc = "done"
    /\ Len(x_returned.segments) = 2
    /\ Len(x_calls) >= 3
    /\ x_loads = 1

====
